---- MODULE Spec2Model ----
(***************************************************************************)
(* Model of src/main.py, the "School Website API": five FastAPI routes.    *)
(*                                                                         *)
(* A Python str that the code takes apart (strip, replace, slicing,        *)
(* lower-casing) is a sequence of one-character strings; a str the code    *)
(* only passes along is a TLA+ string.  The emoji that prefix the status   *)
(* texts of /test cannot be written in a TLA+ string and are left out of   *)
(* the labels: every label below is the source's text after its emoji.     *)
(* An Optional[...] value is a record [isNone, val].                       *)
(***************************************************************************)
EXTENDS Integers, Sequences, FiniteSets, TLC

VARIABLES env, req, resp, remembered

vars == <<env, req, resp, remembered>>

\* ------------------------------------------------------------------ bounds

MaxMsgLen == 7

MaxErrLen == 52

MaxCollections == 12

\* ----------------------------------------------------------- Python values

None == [isNone |-> TRUE, val |-> <<>>]

Some(v) == [isNone |-> FALSE, val |-> v]

Min(a, b) == IF a < b THEN a ELSE b

\* mutant: the slice keeps one element too many
Slice_inclusive(s, n) == SubSeq(s, 1, Min(n + 1, Len(s)))

\* s[:n]
Slice(s, n) == SubSeq(s, 1, Min(n, Len(s)))

\* the characters str.strip() removes (the ASCII ones)
Whitespace == {" ", "\t", "\n", "\r", "\f"}

RECURSIVE lstrip(_)
lstrip(s) ==
  IF s = <<>> THEN <<>>
  ELSE IF Head(s) \in Whitespace THEN lstrip(Tail(s))
  ELSE s

RECURSIVE rstrip(_)
rstrip(s) ==
  IF s = <<>> THEN <<>>
  ELSE IF s[Len(s)] \in Whitespace THEN rstrip(SubSeq(s, 1, Len(s) - 1))
  ELSE s

\* str.strip(): leading and trailing whitespace removed, the inside kept
strip(s) == rstrip(lstrip(s))

\* mutant: str.replace(old, new, 1), only the first occurrence replaced
replace_first(s, old, new) ==
  IF \E i \in 1..Len(s) : s[i] = old
  THEN LET i == CHOOSE j \in 1..Len(s) : s[j] = old /\ \A k \in 1..(j - 1) : s[k] # old
       IN  SubSeq(s, 1, i - 1) \o new \o SubSeq(s, i + 1, Len(s))
  ELSE s

\* str.replace(old, new) for a one-character old
RECURSIVE replace(_, _, _)
replace(s, old, new) ==
  IF s = <<>> THEN <<>>
  ELSE (IF Head(s) = old THEN new ELSE <<Head(s)>>) \o replace(Tail(s), old, new)

UpperCase == <<"A", "B", "C", "D", "E", "F", "G", "H", "I", "J", "K", "L", "M",
               "N", "O", "P", "Q", "R", "S", "T", "U", "V", "W", "X", "Y", "Z">>

LowerCase == <<"a", "b", "c", "d", "e", "f", "g", "h", "i", "j", "k", "l", "m",
               "n", "o", "p", "q", "r", "s", "t", "u", "v", "w", "x", "y", "z">>

lower(s) ==
  [i \in 1..Len(s) |->
     IF \E k \in 1..26 : UpperCase[k] = s[i]
     THEN LowerCase[CHOOSE k \in 1..26 : UpperCase[k] = s[i]]
     ELSE s[i]]

\* ------------------------------------------------- ContactRequest (pydantic)

\* the positions of "@" in s
AtSigns(s) == {i \in 1..Len(s) : s[i] = "@"}

\* EmailStr: the value is stripped, checked for the syntax local@domain and
\* returned in normalised form, the domain part in lower case.
EmailStr(value) ==
  LET email == strip(value)
      at    == CHOOSE i \in AtSigns(email) : TRUE
      local == SubSeq(email, 1, at - 1)
      dom   == SubSeq(email, at + 1, Len(email))
      ok    == /\ Cardinality(AtSigns(email)) = 1
               /\ local # <<>>
               /\ dom # <<>>
               /\ \A i \in 1..Len(email) : email[i] \notin Whitespace
               /\ \E i \in 1..Len(dom) : dom[i] = "."
               /\ dom[1] # "."
               /\ dom[Len(dom)] # "."
  IN  IF AtSigns(email) = {} \/ ~ok
      THEN [valid |-> FALSE, value |-> <<>>]
      ELSE [valid |-> TRUE, value |-> local \o <<"@">> \o lower(dom)]

\* The request body parsed into the model: name and message are required, email
\* is an optional EmailStr, phone an optional str.
ContactRequest(body) ==
  LET e == IF body.email.isNone THEN [valid |-> TRUE, value |-> <<>>]
           ELSE EmailStr(body.email.val)
  IN  IF body.name.isNone \/ body.message.isNone \/ ~e.valid
      THEN [valid |-> FALSE, payload |-> None]
      ELSE [valid |-> TRUE,
            payload |-> [name    |-> body.name.val,
                         email   |-> IF body.email.isNone THEN None ELSE Some(e.value),
                         phone   |-> body.phone,
                         message |-> body.message.val]]

\* ------------------------------------------------------------------ routes

HTTPException(status_code, detail) ==
  [status |-> status_code, body |-> [detail |-> detail]]

OK(body) == [status |-> 200, body |-> body]

\* mutant: the greeting changes once a request has been served
read_root_counting ==
  IF remembered.recorded THEN [message |-> "Hello again from FastAPI Backend!"]
  ELSE [message |-> "Hello from FastAPI Backend!"]

\* GET /
read_root == [message |-> "Hello from FastAPI Backend!"]

\* GET /api/hello
hello == [message |-> "Hello from the backend API!"]

\* GET /api/info
get_school_info ==
  LET address ==
        << "5", "8", " ", "B", "d", " ", "I", "b", "n", "o", "u", " ", "S", "i",
           "n", "a", ",", " ", "C", "a", "s", "a", "b", "l", "a", "n", "c", "a",
           " ", "2", "0", "2", "1", "0" >>
      phone == "05229-44803"
      hours == "Ouvert · Ferme à 18h"
      maps_q == replace(address, " ", <<"+">>)
      maps_url ==
        << "h", "t", "t", "p", "s", ":", "/", "/", "w", "w", "w", ".", "g", "o",
           "o", "g", "l", "e", ".", "c", "o", "m", "/", "m", "a", "p", "s", "/",
           "s", "e", "a", "r", "c", "h", "/", "?", "a", "p", "i", "=", "1", "&",
           "q", "u", "e", "r", "y", "=" >> \o maps_q
  IN  [name        |-> "École Ibnou Sina",
       address     |-> address,
       phone       |-> phone,
       hours_label |-> hours,
       city        |-> Some("Casablanca"),
       country     |-> Some("Maroc"),
       maps_url    |-> Some(maps_url)]

\* mutant: a message of exactly five characters is rejected
submit_contact_offbyone(payload) ==
  IF Len(strip(payload.message)) <= 5
  THEN HTTPException(400, "Le message est trop court.")
  ELSE OK([status   |-> "ok",
           received |-> [name  |-> payload.name,
                         email |-> payload.email,
                         phone |-> payload.phone],
           message  |-> "Merci pour votre message. Nous vous contacterons bientôt."])

\* mutant: the length is taken of the message as sent, not stripped
submit_contact_nostrip(payload) ==
  IF Len(payload.message) < 5
  THEN HTTPException(400, "Le message est trop court.")
  ELSE OK([status   |-> "ok",
           received |-> [name  |-> payload.name,
                         email |-> payload.email,
                         phone |-> payload.phone],
           message  |-> "Merci pour votre message. Nous vous contacterons bientôt."])

\* mutant: the handler keeps what it accepted and refuses the next post
submit_contact_once(payload) ==
  IF Len(strip(payload.message)) < 5 \/ remembered.posted = 200
  THEN HTTPException(400, "Le message est trop court.")
  ELSE OK([status   |-> "ok",
           received |-> [name  |-> payload.name,
                         email |-> payload.email,
                         phone |-> payload.phone],
           message  |-> "Merci pour votre message. Nous vous contacterons bientôt."])

\* POST /api/contact, the handler on a validated payload
submit_contact(payload) ==
  IF Len(strip(payload.message)) < 5
  THEN HTTPException(400, "Le message est trop court.")
  ELSE OK([status   |-> "ok",
           received |-> [name  |-> payload.name,
                         email |-> payload.email,
                         phone |-> payload.phone],
           message  |-> "Merci pour votre message. Nous vous contacterons bientôt."])

\* POST /api/contact as the framework serves it: a body that does not parse
\* into a ContactRequest is answered 422 and never reaches the handler.
post_contact(body) ==
  LET parsed == ContactRequest(body)
  IN  IF parsed.valid THEN submit_contact(parsed.payload)
      ELSE HTTPException(422, "validation error")

\* ------------------------------------------------------------------- /test

\* Python's classes of the exceptions the probe can raise
Bases(cls) ==
  CASE cls = "ModuleNotFoundError" -> {"ModuleNotFoundError", "ImportError", "Exception", "BaseException"}
    [] cls = "ImportError"         -> {"ImportError", "Exception", "BaseException"}
    [] cls \in {"KeyboardInterrupt", "SystemExit"} -> {cls, "BaseException"}
    [] OTHER                       -> {cls, "Exception", "BaseException"}

\* whether `except base` catches an exception of class cls
Catches(base, cls) == base \in Bases(cls)

\* an f-string "<label>{detail}"
Text(label, detail) == [label |-> label, detail |-> detail]

\* os.getenv(name)
getenv(name) == env[name]

\* the truth value of an Optional[str]
Truthy(v) == ~v.isNone /\ v.val # <<>>

\* the report as the handler creates it, on every call
FreshReport ==
  [backend           |-> "Running",
   database          |-> Text("Not Available", <<>>),
   database_url      |-> None,
   database_name     |-> None,
   connection_status |-> "Not Connected",
   collections       |-> <<>>]

\* mutant: the error text is reported whole
ListCollections_untruncated(response, db) ==
  IF db.listing = "ok"
  THEN [raised   |-> "none",
        text     |-> <<>>,
        response |-> [response EXCEPT !.collections = Slice(db.collections, 10),
                                      !.database = Text("Connected & Working", <<>>)]]
  ELSE [raised   |-> "none",
        text     |-> <<>>,
        response |-> [response EXCEPT
                        !.database = Text("Connected but Error: ", db.listText)]]

\* mutant: a failed listing takes the connection status back
ListCollections_disconnect(response, db) ==
  IF db.listing = "ok"
  THEN [raised   |-> "none",
        text     |-> <<>>,
        response |-> [response EXCEPT !.collections = Slice(db.collections, 10),
                                      !.database = Text("Connected & Working", <<>>)]]
  ELSE [raised   |-> "none",
        text     |-> <<>>,
        response |-> [response EXCEPT
                        !.connection_status = "Not Connected",
                        !.database = Text("Connected but Error: ", Slice(db.listText, 50))]]

\* the inner try: list the collections of a handle that is not None
ListCollections(response, db) ==
  IF db.listing = "ok"
  THEN [raised   |-> "none",
        text     |-> <<>>,
        response |-> [response EXCEPT !.collections = Slice(db.collections, 10),
                                      !.database = Text("Connected & Working", <<>>)]]
  ELSE IF Catches("Exception", db.listing)
  THEN [raised   |-> "none",
        text     |-> <<>>,
        response |-> [response EXCEPT
                        !.database = Text("Connected but Error: ", Slice(db.listText, 50))]]
  ELSE [raised |-> db.listing, text |-> db.listText, response |-> response]

\* the body of the outer try: import the handle, then use it
TryBlock(response, probe) ==
  IF probe.import # "ok"
  THEN [raised |-> probe.import, text |-> probe.importText, response |-> response]
  ELSE IF ~probe.db.isNone
  THEN ListCollections(
         [response EXCEPT
            !.database = Text("Available", <<>>),
            !.database_url = Some("Configured"),
            !.database_name = IF probe.db.hasName THEN Some(probe.db.name)
                              ELSE Some("Connected"),
            !.connection_status = "Connected"],
         probe.db)
  ELSE [raised   |-> "none",
        text     |-> <<>>,
        response |-> [response EXCEPT
                        !.database = Text("Available but not initialized", <<>>)]]

\* mutant: only `except ImportError`, no `except Exception`
Handle_import_only(t) ==
  IF t.raised = "none" THEN t
  ELSE IF Catches("ImportError", t.raised)
  THEN [t EXCEPT !.raised = "none",
                 !.response.database =
                    Text("Database module not found (run enable-database first)", <<>>)]
  ELSE t

\* the except clauses of the outer try
Handle(t) ==
  IF t.raised = "none" THEN t
  ELSE IF Catches("ImportError", t.raised)
  THEN [t EXCEPT !.raised = "none",
                 !.response.database =
                    Text("Database module not found (run enable-database first)", <<>>)]
  ELSE IF Catches("Exception", t.raised)
  THEN [t EXCEPT !.raised = "none",
                 !.response.database = Text("Error: ", Slice(t.text, 50))]
  ELSE t

\* mutant: the environment fills only the fields the probe left None
CheckEnvironment_keep(response) ==
  [response EXCEPT
     !.database_url = IF ~@.isNone THEN @
                      ELSE IF Truthy(getenv("DATABASE_URL")) THEN Some("Set")
                      ELSE Some("Not Set"),
     !.database_name = IF ~@.isNone THEN @
                       ELSE IF Truthy(getenv("DATABASE_NAME")) THEN Some("Set")
                       ELSE Some("Not Set")]

\* the two environment variables, reported after the probe
CheckEnvironment(response) ==
  [response EXCEPT
     !.database_url = IF Truthy(getenv("DATABASE_URL")) THEN Some("Set")
                      ELSE Some("Not Set"),
     !.database_name = IF Truthy(getenv("DATABASE_NAME")) THEN Some("Set")
                       ELSE Some("Not Set")]

\* GET /test; an exception that leaves the handler is answered 500
test_database(probe) ==
  LET t == Handle(TryBlock(FreshReport, probe))
  IN  IF t.raised = "none" THEN OK(CheckEnvironment(t.response))
      ELSE HTTPException(500, "Internal Server Error")

\* ------------------------------------------------------------------ inputs

\* the sequences over S of length at most n
SeqsUpTo(S, n) == UNION {[1..k -> S] : k \in 0..n}

Names == { <<"A", "m", "a", "l">>, <<" ", "Z", " ">> }

Emails ==
  { <<"a", "@", "b", ".", "c", "o">>,
    <<"A", "@", "B", ".", "C", "o">>,
    <<" ", "a", "@", "b", ".", "c", "o">>,
    <<"a", "b">> }

Phones == { <<"0", "6">> }

Messages ==
  SeqsUpTo({" ", "a"}, MaxMsgLen)
    \cup { <<"H", "i">>,
           <<"B", "o", "n", "j", "o", "u", "r">>,
           <<"\t", "a", "a", "a", "a", "\n">>,
           <<"\n", "a", "a", " ", "a", "a", "\t", "\r">>,
           <<"\t", "\n", "\r", "\f", " ", "\t">> }

Optional(S) == {None} \cup {Some(v) : v \in S}

\* the JSON bodies sent to POST /api/contact
ContactBodies ==
  [name : Optional(Names), email : Optional(Emails), phone : Optional(Phones),
   message : Optional(Messages)]

Digits == <<"0", "1", "2", "3", "4", "5", "6", "7", "8", "9">>

\* str(e): one text of every length up to MaxErrLen
ErrorTexts == {[i \in 1..n |-> Digits[(i % 10) + 1]] : n \in 0..MaxErrLen}

\* what list_collection_names() returns: names 1..n, in either order
CollectionLists ==
  {[i \in 1..n |-> i] : n \in 0..MaxCollections}
    \cup {[i \in 1..n |-> n + 1 - i] : n \in 0..MaxCollections}

NoHandle ==
  [isNone |-> TRUE, hasName |-> FALSE, name |-> "", listing |-> "ok",
   collections |-> <<>>, listText |-> <<>>]

\* the handles `from database import db` can bind that are not None
Handles ==
  {[isNone |-> FALSE, hasName |-> h, name |-> IF h THEN "school" ELSE "",
    listing |-> "ok", collections |-> c, listText |-> <<>>] :
      h \in BOOLEAN, c \in CollectionLists}
    \cup
  {[isNone |-> FALSE, hasName |-> h[1], name |-> IF h[1] THEN "school" ELSE "",
    listing |-> h[2], collections |-> <<>>, listText |-> t] :
      h \in BOOLEAN \X {"ImportError", "PyMongoError"}, t \in ErrorTexts}

\* the outcomes of the probe of the database module
Probes ==
  {[import |-> c, importText |-> <<>>, db |-> NoHandle] :
      c \in {"ModuleNotFoundError", "ImportError"}}
    \cup {[import |-> "RuntimeError", importText |-> t, db |-> NoHandle] :
            t \in ErrorTexts}
    \cup {[import |-> "ok", importText |-> <<>>, db |-> d] :
            d \in {NoHandle} \cup Handles}

EnvNames == {"DATABASE_URL", "DATABASE_NAME"}

\* unset, set to the empty string, set to a value
EnvValues == {None, Some(<<>>), Some(<<"m", "o", "n", "g", "o">>)}

\* ------------------------------------------------------------- state machine

NoRequest == [route |-> "none", input |-> None]

NoResponse == [status |-> 0, body |-> None]

\* The observer of the frame properties: one request and its response, kept
\* from the step that served it, and the status of the last POST /api/contact
\* served since.
NoRecord ==
  [recorded |-> FALSE, req |-> NoRequest, resp |-> NoResponse, posted |-> 0]

Init ==
  /\ env \in [EnvNames -> EnvValues]
  /\ req = NoRequest
  /\ resp = NoResponse
  /\ remembered = NoRecord

\* no request is being served
Idle == req = NoRequest /\ resp = NoResponse

ReadRoot ==
  /\ Idle
  /\ req' = [route |-> "/", input |-> None]
  /\ resp' = OK(read_root)
  /\ UNCHANGED env

Hello ==
  /\ Idle
  /\ req' = [route |-> "/api/hello", input |-> None]
  /\ resp' = OK(hello)
  /\ UNCHANGED env

GetSchoolInfo ==
  /\ Idle
  /\ req' = [route |-> "/api/info", input |-> None]
  /\ resp' = OK(get_school_info)
  /\ UNCHANGED env

SubmitContact(bodies) ==
  /\ Idle
  /\ \E body \in bodies :
    /\ req' = [route |-> "/api/contact", input |-> body]
    /\ resp' = post_contact(body)
    /\ UNCHANGED env

TestDatabase(probes) ==
  /\ Idle
  /\ \E probe \in probes :
    /\ req' = [route |-> "/test", input |-> [env |-> env, probe |-> probe]]
    /\ resp' = test_database(probe)
    /\ UNCHANGED env

\* the response is sent and the request's data discarded
Respond ==
  /\ ~Idle
  /\ req' = NoRequest
  /\ resp' = NoResponse
  /\ UNCHANGED <<env, remembered>>

\* the environment variables are set outside the handlers, at any moment
SetEnv ==
  \E k \in EnvNames, v \in EnvValues :
    /\ v # env[k]
    /\ env' = [env EXCEPT ![k] = v]
    /\ UNCHANGED <<req, resp, remembered>>

Next ==
  \/ ReadRoot /\ UNCHANGED remembered
  \/ Hello /\ UNCHANGED remembered
  \/ GetSchoolInfo /\ UNCHANGED remembered
  \/ SubmitContact(ContactBodies) /\ UNCHANGED remembered
  \/ TestDatabase(Probes) /\ UNCHANGED remembered
  \/ Respond
  \/ SetEnv

Spec == Init /\ [][Next]_vars

\* ------------------------------------------------- the observed state machine

\* the observer keeps the request being served, or once it has one, notes the
\* contact posts served after it
Observe ==
  IF remembered.recorded
  THEN remembered' =
         [remembered EXCEPT
            !.posted = IF req'.route = "/api/contact" THEN resp'.status ELSE @]
  ELSE remembered' \in
         {remembered,
          [recorded |-> TRUE, req |-> req', resp |-> resp', posted |-> 0]}

\* a body of every kind: not parsed, too short, accepted
FrameBodies ==
  [name : {Some(<<"A", "m", "a", "l">>)},
   email : {None, Some(<<"A", "@", "B", ".", "C", "o">>)},
   phone : {None},
   message : {None, Some(<<"H", "i">>), Some(<<"B", "o", "n", "j", "o", "u", "r">>)}]

\* a probe outcome of every kind, with the longest texts and lists
FrameProbes ==
  {p \in Probes :
     /\ p.import # "ImportError"
     /\ p.import = "RuntimeError" => Len(p.importText) = MaxErrLen
     /\ ~p.db.hasName
     /\ ~p.db.isNone =>
          \/ p.db.listing = "ok" /\ Len(p.db.collections) = MaxCollections
                                 /\ p.db.collections[1] # 1
          \/ p.db.listing = "PyMongoError" /\ Len(p.db.listText) = MaxErrLen}

NextFrame ==
  \/ ReadRoot /\ Observe
  \/ Hello /\ Observe
  \/ GetSchoolInfo /\ Observe
  \/ SubmitContact(FrameBodies) /\ Observe
  \/ TestDatabase(FrameProbes) /\ Observe
  \/ Respond
  \/ SetEnv

SpecFrame == Init /\ [][NextFrame]_vars

\* ------------------------------------------------------------------ claims

\* the request in hand is one to `route`, served
Served(route) == req.route = route /\ resp # NoResponse

\* the length of m without its leading and trailing whitespace, counted from
\* the positions of its first and last character that is not whitespace
TrimmedLen(m) ==
  LET inked == {i \in 1..Len(m) : m[i] \notin Whitespace}
  IN  IF inked = {} THEN 0
      ELSE (CHOOSE i \in inked : \A j \in inked : j <= i)
             - (CHOOSE i \in inked : \A j \in inked : i <= j) + 1

\* the body of the request in hand parses into a ContactRequest
ValidBody == ContactRequest(req.input).valid

Acknowledgment == "Merci pour votre message. Nous vous contacterons bientôt."

\* the acknowledgment of the request in hand, but for the email it echoes
Acknowledged ==
  /\ resp.status = 200
  /\ resp.body.status = "ok"
  /\ resp.body.message = Acknowledgment
  /\ resp.body.received.name = req.input.name.val
  /\ resp.body.received.phone = req.input.phone

\* C1 as stated: every valid body whose trimmed message has at least 5
\* characters is acknowledged "ok", with name, email and phone echoed verbatim.
C1_EchoVerbatim ==
  (Served("/api/contact") /\ ValidBody /\ TrimmedLen(req.input.message.val) >= 5)
    => /\ Acknowledged
       /\ resp.body.received.email = req.input.email

\* an address EmailStr returns as it was sent: nothing to strip, and no
\* upper-case letter after the "@"
Normalised(e) ==
  /\ strip(e) = e
  /\ \A i \in 1..Len(e) : \A j \in 1..Len(e) :
       (e[i] = "@" /\ i < j) => \A k \in 1..26 : e[j] # UpperCase[k]

\* C1 amended: every valid body whose trimmed message has at least 5 characters
\* is acknowledged "ok", with name and phone echoed verbatim, and the email null
\* when absent and otherwise in the normalised form of EmailStr, which is the
\* text sent only when that text is already normalised.
C1_EchoNormalised ==
  (Served("/api/contact") /\ ValidBody /\ TrimmedLen(req.input.message.val) >= 5)
    => /\ Acknowledged
       /\ req.input.email.isNone => resp.body.received.email = None
       /\ ~req.input.email.isNone =>
            /\ ~resp.body.received.email.isNone
            /\ resp.body.received.email.val = EmailStr(req.input.email.val).value
            /\ Normalised(req.input.email.val) <=>
                 resp.body.received.email.val = req.input.email.val

\* an accepted post whose email comes back changed, its phone null
C1_Witness ==
  /\ Served("/api/contact")
  /\ resp.status = 200
  /\ TrimmedLen(req.input.message.val) = 5
  /\ Len(req.input.message.val) = MaxMsgLen
  /\ req.input.phone.isNone
  /\ ~req.input.email.isNone
  /\ resp.body.received.email # req.input.email

\* C2: every valid body whose trimmed message is shorter than 5 characters is
\* refused with status 400 and the detail "Le message est trop court.", never
\* acknowledged.
C2_TooShort ==
  (Served("/api/contact") /\ ValidBody /\ TrimmedLen(req.input.message.val) < 5)
    => resp = [status |-> 400, body |-> [detail |-> "Le message est trop court."]]

\* a message of whitespace only, at least 5 characters long, refused
C2_Witness ==
  /\ Served("/api/contact")
  /\ ValidBody
  /\ Len(req.input.message.val) >= 5
  /\ TrimmedLen(req.input.message.val) = 0
  /\ resp.status = 400

ReportKeys ==
  {"backend", "database", "database_url", "database_name", "connection_status",
   "collections"}

MapsUrlLiteral ==
  << "h", "t", "t", "p", "s", ":", "/", "/", "w", "w", "w", ".", "g", "o",
     "o", "g", "l", "e", ".", "c", "o", "m", "/", "m", "a", "p", "s", "/",
     "s", "e", "a", "r", "c", "h", "/", "?", "a", "p", "i", "=", "1", "&",
     "q", "u", "e", "r", "y", "=", "5", "8", "+", "B", "d", "+", "I", "b",
     "n", "o", "u", "+", "S", "i", "n", "a", ",", "+", "C", "a", "s", "a",
     "b", "l", "a", "n", "c", "a", "+", "2", "0", "2", "1", "0" >>

AddressLiteral ==
  << "5", "8", " ", "B", "d", " ", "I", "b", "n", "o", "u", " ", "S", "i",
     "n", "a", ",", " ", "C", "a", "s", "a", "b", "l", "a", "n", "c", "a",
     " ", "2", "0", "2", "1", "0" >>

\* C4: GET /api/info returns the fixed name, address, phone, hours_label, city
\* and country, and a maps_url equal to the literal URL, with no space in it.
C4_SchoolInfo ==
  Served("/api/info")
    => /\ resp.status = 200
       /\ resp.body.name = "École Ibnou Sina"
       /\ resp.body.address = AddressLiteral
       /\ resp.body.phone = "05229-44803"
       /\ resp.body.hours_label = "Ouvert · Ferme à 18h"
       /\ resp.body.city = Some("Casablanca")
       /\ resp.body.country = Some("Maroc")
       /\ resp.body.maps_url = Some(MapsUrlLiteral)
       /\ \A i \in 1..Len(resp.body.maps_url.val) : resp.body.maps_url.val[i] # " "

\* the school's information, served
C4_Witness ==
  /\ Served("/api/info")
  /\ Len(resp.body.maps_url.val) = 48 + Len(resp.body.address)

\* "Set" or "Not Set"
SetLabel(b) == IF b THEN Some("Set") ELSE Some("Not Set")

\* C5 as stated: database_url is "Set" exactly when DATABASE_URL is set, and
\* database_name likewise for DATABASE_NAME, whatever the probe found.
C5_SetWhenSet ==
  Served("/test")
    => /\ resp.body.database_url = SetLabel(~req.input.env["DATABASE_URL"].isNone)
       /\ resp.body.database_name = SetLabel(~req.input.env["DATABASE_NAME"].isNone)

\* C5 amended: database_url is "Set" exactly when DATABASE_URL is set to a
\* non-empty value, "Not Set" when it is unset or empty, and database_name
\* likewise for DATABASE_NAME, whatever the probe found.
C5_SetWhenNonEmpty ==
  Served("/test")
    => /\ resp.body.database_url =
            SetLabel(/\ ~req.input.env["DATABASE_URL"].isNone
                     /\ Len(req.input.env["DATABASE_URL"].val) > 0)
       /\ resp.body.database_name =
            SetLabel(/\ ~req.input.env["DATABASE_NAME"].isNone
                     /\ Len(req.input.env["DATABASE_NAME"].val) > 0)

\* a handle with a name was found, one variable is empty and the other unset
C5_Witness ==
  /\ Served("/test")
  /\ ~req.input.probe.db.isNone
  /\ req.input.probe.db.hasName
  /\ req.input.env["DATABASE_URL"] = Some(<<>>)
  /\ req.input.env["DATABASE_NAME"] = None
  /\ resp.body.database_url = Some("Not Set")
  /\ resp.body.database_name = Some("Not Set")

\* the probe of the request in hand found a handle that is not None
HandleFound == req.input.probe.import = "ok" /\ ~req.input.probe.db.isNone

\* s is the first min(n, Len(t)) elements of t, in their order
IsPrefixOfAtMost(s, t, n) ==
  /\ Len(s) = (IF Len(t) < n THEN Len(t) ELSE n)
  /\ \A i \in 1..Len(s) : s[i] = t[i]

\* C6: when the handle is found and list_collection_names succeeds with L, the
\* collections are the first min(10, len(L)) elements of L in their order and
\* the database field is "Connected & Working".
C6_FirstTen ==
  (Served("/test") /\ HandleFound /\ req.input.probe.db.listing = "ok")
    => /\ IsPrefixOfAtMost(resp.body.collections, req.input.probe.db.collections, 10)
       /\ resp.body.database = [label |-> "Connected & Working", detail |-> <<>>]

\* more than 10 collections, listed from the last name down
C6_Witness ==
  /\ Served("/test")
  /\ HandleFound
  /\ req.input.probe.db.listing = "ok"
  /\ Len(req.input.probe.db.collections) = MaxCollections
  /\ req.input.probe.db.collections[1] = MaxCollections
  /\ Len(resp.body.collections) = 10

\* C7: when the import raises ImportError the database field reports the module
\* as not found; when it raises another exception, or list_collection_names
\* raises, the field reports the error text cut to its first 50 characters; in
\* all these cases collections stays empty.
C7_ProbeFailures ==
  Served("/test")
    => /\ req.input.probe.import \in {"ModuleNotFoundError", "ImportError"}
            => /\ resp.body.database.label =
                    "Database module not found (run enable-database first)"
               /\ resp.body.database.detail = <<>>
               /\ resp.body.collections = <<>>
       /\ req.input.probe.import \notin {"ModuleNotFoundError", "ImportError", "ok"}
            => /\ resp.body.database.label = "Error: "
               /\ IsPrefixOfAtMost(resp.body.database.detail,
                                   req.input.probe.importText, 50)
               /\ resp.body.collections = <<>>
       /\ (HandleFound /\ req.input.probe.db.listing # "ok")
            => /\ resp.body.database.label = "Connected but Error: "
               /\ IsPrefixOfAtMost(resp.body.database.detail,
                                   req.input.probe.db.listText, 50)
               /\ resp.body.collections = <<>>

\* list_collection_names raised with a text of more than 50 characters
C7_Witness ==
  /\ Served("/test")
  /\ HandleFound
  /\ req.input.probe.db.listing = "PyMongoError"
  /\ Len(req.input.probe.db.listText) = MaxErrLen
  /\ Len(resp.body.database.detail) = 50

\* C8: GET / and GET /api/hello return their fixed greeting on every call, the
\* same as a call served earlier did, whatever was served in between.
C8_FixedGreetings ==
  /\ Served("/") => resp = [status |-> 200,
                            body |-> [message |-> "Hello from FastAPI Backend!"]]
  /\ Served("/api/hello") => resp = [status |-> 200,
                                     body |-> [message |-> "Hello from the backend API!"]]
  /\ (remembered.recorded /\ resp # NoResponse /\ req.route \in {"/", "/api/hello"}
        /\ remembered.req.route = req.route)
       => resp = remembered.resp

\* GET / served again after an accepted contact post
C8_Witness ==
  /\ remembered.recorded
  /\ remembered.req.route = "/"
  /\ remembered.posted = 200
  /\ Served("/")
  /\ resp = remembered.resp

\* the request in hand is the one the observer kept
SameRequest == req.route = remembered.req.route /\ req.input = remembered.req.input

C10_ConnectionStatus ==
  Served("/test")
    => /\ HandleFound => resp.body.connection_status = "Connected"
       /\ ~HandleFound => resp.body.connection_status = "Not Connected"

\* connected, no collections, and an error in the database field
C10_Witness ==
  /\ Served("/test")
  /\ resp.body.connection_status = "Connected"
  /\ resp.body.collections = <<>>
  /\ resp.body.database.label = "Connected but Error: "

====
